---- MODULE Spec2Model ----
(***************************************************************************)
(* A model of the model-weights downloader, src/colab_model_downloader.py: *)
(* ModelDownloader (check_disk_space, download_file, extract_archive,      *)
(* verify_file, download_model_category, download_all_models,              *)
(* cleanup_temp_files) driven by main().                                   *)
(*                                                                         *)
(* Sizes are in hundredths of a GB, so 0.2 GB is 20 and 3.5 GB is 350.     *)
(* A file name is the sequence of its dot-separated parts,                 *)
(* <<"params_model_1", "npz">>; a path is <<directory, name>>, a directory *)
(* being the sequence of its components from the root.                     *)
(***************************************************************************)
EXTENDS Integers, Sequences, FiniteSets, TLC

VARIABLES
    models,               \* self.models: the catalog, fixed at construction
    fs,                   \* the file system: path -> file, for the files that exist
    pc,                   \* where the program is
    mode,                 \* main's choice: "all", "category", "status" ("none" when idle)
    success,              \* main's local `success` (False until assigned), its return value
    category,             \* download_model_category's argument
    catIdx,               \* download_all_models: position in self.models.keys()
    all_required_success, \* download_all_models' local
    allResult,            \* what download_all_models returned
    idx,                  \* download_model_category: position in model_config["files"]
    required_success,     \* download_model_category's local
    any_failure,          \* the negation of download_model_category's local `success`
    catResult,            \* what download_model_category returned
    filepath,             \* download_file's argument
    attempt,              \* download_file's loop variable
    dlResult,             \* what download_file returned
    log,                  \* what the current download_file call did: attempts and sleeps
    report,               \* the outcome printed for each entry of the current category
    dlCalls,              \* download_file calls made since main started
    lastExtract,          \* the extract_archive call just made: the archive's format,
                          \* whether all its member names are safe, and the result
    prevAllOk,            \* download_all_models is running again right after a run of
                          \* main() in which it returned True
    catsRun,              \* download_all_models: the download_model_category calls it
                          \* has made so far, each with what it returned
    lastStat,             \* the os.statvfs outcome of the check_disk_space call just made
    interrupted,          \* main's except KeyboardInterrupt branch ran
    cleaned,              \* files cleanup_temp_files removed in the run of main that
                          \* just ended (-1 before the cleanup)
    exit_code,            \* the exit status of the script run that just ended (-1
                          \* while it has not ended)
    call                  \* a direct call of verify_file: its argument and its result

vars == <<models, fs, pc, mode, success, category, catIdx, all_required_success,
          allResult, idx, required_success, any_failure, catResult, filepath,
          attempt, dlResult, log, report, dlCalls, lastExtract, prevAllOk,
          catsRun, lastStat, interrupted, cleaned, exit_code, call>>

----------------------------------------------------------------------------
(* Program constants *)

max_retries == 3
Tolerance == 20
CategoryBuffer == 100
BatchBuffer == 200

(* Bounds of the model *)

MaxEntries == 2     \* entries of a generated category
MaxMembers == 2     \* members of a downloaded archive
MaxGridSize == 125  \* largest file size verify_file is called on directly

----------------------------------------------------------------------------
(* The catalog *)

Entry(n, x, s, r) == [name |-> n, extract |-> x, size_gb |-> s, required |-> r]

NoSize == 0         \* info.get("size_gb") is None; None and 0 are both falsy

ModelsDir == <<"content", "models">>

CategoryDir(c) == Append(ModelsDir, c)

BuiltinModels ==
    << [name |-> "alphafold",
        files |-> << Entry(<<"params_model_1", "npz">>, TRUE, 350, TRUE) >>],
       [name |-> "proteinmpnn",
        files |-> << Entry(<<"proteinmpnn_v_48_020", "pt">>, FALSE, 50, TRUE),
                     Entry(<<"ligandmpnn_v_32_010_25", "pt">>, FALSE, 50, TRUE) >>],
       [name |-> "rf_diffusion",
        files |-> << Entry(<<"rf_diffusion_all_atom", "pt">>, FALSE, 200, TRUE) >>] >>

(* Other catalogs the same class can be constructed with: one category whose
   entries are drawn from these. *)
OtherEntries ==
    { Entry(<<"proteinmpnn_v_48_020", "pt">>, FALSE, 50, TRUE),
      Entry(<<"weights", "tar">>, TRUE, 50, TRUE),
      Entry(<<"extra", "pt">>, FALSE, NoSize, FALSE) }

EntrySeqs ==
    UNION { { s \in [1..n -> OtherEntries] : \A i, j \in 1..n : i # j => s[i] # s[j] }
            : n \in 1..MaxEntries }

Catalogs ==
    {BuiltinModels} \cup { << [name |-> "proteinmpnn", files |-> s] >> : s \in EntrySeqs }

CategoryNames == {"alphafold", "proteinmpnn", "rf_diffusion"}

CatIndex(c) == CHOOSE i \in 1..Len(models) : models[i].name = c

Known(c) == \E i \in 1..Len(models) : models[i].name = c

Files(c) == models[CatIndex(c)].files

FinalPath(c, e) == <<CategoryDir(c), e.name>>

\* (mutant) the download goes straight to the final name
TempNameSameAsFinal(name) == name

\* filepath.with_suffix(filepath.suffix + ".tmp")
TempName(name) == Append(name, "tmp")

TempPath(c, e) == <<CategoryDir(c), TempName(e.name)>>

FinalPaths ==
    UNION { { FinalPath(models[i].name, models[i].files[j]) :
                j \in 1..Len(models[i].files) } : i \in 1..Len(models) }

----------------------------------------------------------------------------
(* The file system *)

\* A file: its size, whether its writer finished it, and where its bytes came from.
File(s, w, o) == [size |-> s, whole |-> w, src |-> o]

Exists(files, p) == p \in DOMAIN files

Write(files, p, f) == [q \in DOMAIN files \cup {p} |-> IF q = p THEN f ELSE files[q]]

Unlink(files, p) == [q \in DOMAIN files \ {p} |-> files[q]]

\* (mutant) the file is copied to the target and stays where it was
RenameCopies(files, from, to) == Write(files, to, files[from])

\* Path.rename: the target is replaced
Rename(files, from, to) == Unlink(Write(files, to, files[from]), from)

\* What the stream of an entry's URL can deliver, and the sizes its file passes
\* through while written: nothing, the size the catalog expects, or more than that
\* by over the tolerance (nothing or some size when the catalog declares none).
NetSizes(e) ==
    IF e.size_gb = NoSize THEN {0, 50} ELSE {0, e.size_gb, e.size_gb + 30}

----------------------------------------------------------------------------
(* check_disk_space: statvfs either raises or reports the free space *)

StatvfsResults ==
    {[ok |-> FALSE, free_gb |-> 0]} \cup
    {[ok |-> TRUE, free_gb |-> f] : f \in {120, 150, 1000}}

\* (mutant) a query that raises counts as not enough space
check_disk_space_fail_closed(st, required_gb) == st.ok /\ st.free_gb >= required_gb

check_disk_space(st, required_gb) ==
    IF st.ok THEN st.free_gb >= required_gb ELSE TRUE

RECURSIVE SumSizes(_)
SumSizes(files) ==
    IF files = <<>> THEN 0 ELSE Head(files).size_gb + SumSizes(Tail(files))

RECURSIVE TotalSize(_)
TotalSize(cats) ==
    IF cats = <<>> THEN 0 ELSE SumSizes(Head(cats).files) + TotalSize(Tail(cats))

----------------------------------------------------------------------------
(* verify_file *)

Abs(x) == IF x < 0 THEN -x ELSE x

\* (mutant) a difference of exactly the tolerance is a mismatch too
verify_file_strict(files, p, expected_size_gb) ==
    Exists(files, p) /\
    (expected_size_gb = NoSize \/ Abs(files[p].size - expected_size_gb) < Tolerance)

verify_file(files, p, expected_size_gb) ==
    IF ~Exists(files, p) THEN FALSE
    ELSE IF expected_size_gb # NoSize /\ Abs(files[p].size - expected_size_gb) > Tolerance
         THEN FALSE
         ELSE TRUE

----------------------------------------------------------------------------
(* extract_archive *)

Root == <<"/">>     \* the leading component of an absolute member name
Up == <<"..">>      \* a parent-directory component

\* The member names a downloaded archive may hold: the catalog entry's own name,
\* another file ("inner.dat") and a name that climbs out of the target
\* ("../../escape.txt").
MemberNames(own) ==
    { <<own>>, << <<"inner", "dat">> >>, <<Up, Up, <<"escape", "txt">>>> }

MemberSeqs(own) ==
    UNION { { s \in [1..n -> MemberNames(own)] : \A i, j \in 1..n : i # j => s[i] # s[j] }
            : n \in 1..MaxMembers }

\* What the bytes of a downloaded file are: an archive of some format, or no archive.
Archives(own) ==
    { [format |-> "gzip", members |-> <<>>], [format |-> "junk", members |-> <<>>] }
    \cup { [format |-> f, members |-> ms] : f \in {"tar", "zip"}, ms \in MemberSeqs(own) }

\* tarfile's extraction filter is the interpreter's default: "fully_trusted" before
\* Python 3.14, "data" from 3.14 on.
TarFilters == {"fully_trusted", "data"}

MemberFile == File(50, TRUE, "member")

\* member.name.startswith('/') or '..' in member.name
Suspicious(m) == m[1] = Root \/ \E i \in 1..Len(m) : m[i] = Up

\* Path.suffix and Path.stem
Suffix(name) == IF Len(name) > 1 THEN name[Len(name)] ELSE ""

Stem(name) == IF Len(name) > 1 THEN SubSeq(name, 1, Len(name) - 1) ELSE name

\* '.tar.' in filepath.name
HasTarDot(name) == \E i \in 2..(Len(name) - 1) : name[i] = "tar"

RECURSIVE Walk(_, _)
Walk(d, comps) ==
    IF comps = <<>> THEN d
    ELSE LET c == Head(comps)
         IN IF c = Root THEN Walk(<<>>, Tail(comps))
            ELSE IF c = Up
                 THEN Walk(IF d = <<>> THEN d ELSE SubSeq(d, 1, Len(d) - 1), Tail(comps))
                 ELSE Walk(Append(d, c[1]), Tail(comps))

\* os.path.join(extract_dir, member name), normalised
Resolve(dir, m) == <<Walk(dir, SubSeq(m, 1, Len(m) - 1)), m[Len(m)]>>

Inside(dir, p) == Len(p[1]) >= Len(dir) /\ SubSeq(p[1], 1, Len(dir)) = dir

StripRoot(m) == IF m[1] = Root THEN Tail(m) ELSE m

\* tar.extractall(path=extract_dir): no `members` argument, so every member of the
\* archive, in archive order. The "data" filter strips a leading '/' and raises on a
\* member that would land outside the target, which ends the extraction there.
RECURSIVE TarExtractAll(_, _, _, _)
TarExtractAll(files, dir, members, flt) ==
    IF members = <<>> THEN [ok |-> TRUE, fs |-> files]
    ELSE LET m == IF flt = "data" THEN StripRoot(Head(members)) ELSE Head(members)
             target == Resolve(dir, m)
         IN IF flt = "data" /\ ~Inside(dir, target)
            THEN [ok |-> FALSE, fs |-> files]
            ELSE TarExtractAll(Write(files, target, MemberFile), dir, Tail(members), flt)

\* zip_file.extractall(path=extract_dir): every member; zipfile itself drops the
\* leading '/' and the '..' components of a member name.
RECURSIVE ZipExtractAll(_, _, _)
ZipExtractAll(files, dir, members) ==
    IF members = <<>> THEN [ok |-> TRUE, fs |-> files]
    ELSE LET m == SelectSeq(Head(members), LAMBDA c : c # Root /\ c # Up)
         IN ZipExtractAll(Write(files, Resolve(dir, m), MemberFile), dir, Tail(members))

\* The loops over tar.getmembers() and zip_file.namelist() only print and `continue`:
\* they change nothing, and what is unpacked is the whole archive.
\* (mutant) a name of no recognised kind is tried as a gzip file
extract_archive_as_gzip(files, fpath, extract_dir, archive, flt) ==
    [ok |-> archive.format = "gzip",
     fs |-> Write(files, <<extract_dir, Stem(fpath[2])>>, MemberFile)]

extract_archive(files, fpath, extract_dir, archive, flt) ==
    LET name == fpath[2] IN
    IF Suffix(name) = "tar" \/ HasTarDot(name)
    THEN IF archive.format = "tar"
         THEN TarExtractAll(files, extract_dir, archive.members, flt)
         ELSE [ok |-> FALSE, fs |-> files]              \* tarfile.open raises
    ELSE IF Suffix(name) = "zip"
    THEN IF archive.format = "zip"
         THEN ZipExtractAll(files, extract_dir, archive.members)
         ELSE [ok |-> FALSE, fs |-> files]              \* ZipFile raises
    ELSE IF Suffix(name) = "gz"
    THEN LET output_file == <<extract_dir, Stem(name)>> IN
         IF archive.format = "gzip"
         THEN [ok |-> TRUE, fs |-> Write(files, output_file, MemberFile)]
         ELSE [ok |-> FALSE, fs |-> Write(files, output_file, File(0, TRUE, "member"))]
    ELSE [ok |-> FALSE, fs |-> files]                   \* unknown archive format

----------------------------------------------------------------------------
(* cleanup_temp_files: every "*.tmp" file directly in a directory of models_dir *)

\* (mutant) the glob is applied to models_dir itself, not to its directories
IsTempInModelsDir(p) == p[1] = ModelsDir /\ Suffix(p[2]) = "tmp"

IsTemp(p) == Len(p[1]) = Len(ModelsDir) + 1 /\ Inside(ModelsDir, p) /\ Suffix(p[2]) = "tmp"

\* (mutant) the sweep removes nothing
KeepFiles(files) == files

cleanup_temp_files(files) == [q \in {p \in DOMAIN files : ~IsTemp(p)} |-> files[q]]

----------------------------------------------------------------------------
(* The state after construction *)

NoFiles == [q \in {} |-> File(0, TRUE, "net")]

NoPath == <<<<>>, <<>>>>

NoExtract == [called |-> FALSE, format |-> "none", safe |-> TRUE, ok |-> FALSE]

NoStat == [called |-> FALSE, ok |-> FALSE, free_gb |-> 0, required_gb |-> 0]

Stat(st, required_gb) ==
    [called |-> TRUE, ok |-> st.ok, free_gb |-> st.free_gb, required_gb |-> required_gb]

NoCall == [expected |-> NoSize, done |-> FALSE, result |-> FALSE]

\* The models directory as an earlier session left it: empty, or holding one file
\* at the final or the temporary path of an entry of the catalog.
PriorDisks ==
    {NoFiles} \cup
    UNION { UNION { { Write(NoFiles, p, File(s, TRUE, "net")) :
                        p \in { FinalPath(models[i].name, models[i].files[j]),
                                TempPath(models[i].name, models[i].files[j]) },
                        s \in NetSizes(models[i].files[j]) }
                    : j \in 1..Len(models[i].files) } : i \in 1..Len(models) }

Init ==
    /\ models \in Catalogs
    /\ fs \in PriorDisks
    /\ pc = "idle"
    /\ mode = "none"
    /\ success = FALSE
    /\ category = "none"
    /\ catIdx = 0
    /\ all_required_success = TRUE
    /\ allResult = FALSE
    /\ idx = 0
    /\ required_success = TRUE
    /\ any_failure = FALSE
    /\ catResult = FALSE
    /\ filepath = NoPath
    /\ attempt = 0
    /\ dlResult = FALSE
    /\ log = <<>>
    /\ report = <<>>
    /\ dlCalls = 0
    /\ lastExtract = NoExtract
    /\ prevAllOk = FALSE
    /\ catsRun = <<>>
    /\ lastStat = NoStat
    /\ interrupted = FALSE
    /\ cleaned = -1
    /\ exit_code = -1
    /\ call = NoCall

allVars == <<catIdx, all_required_success, allResult>>
catVars == <<category, idx, required_success, any_failure, catResult, report, lastExtract>>
dlVars == <<filepath, attempt, dlResult, log>>

----------------------------------------------------------------------------
(* main *)

\* choice "2", "3", "4" name a category; "1" and anything unlisted mean all models
ChoiceCategory(choice) ==
    CASE choice = "2" -> "alphafold"
      [] choice = "3" -> "proteinmpnn"
      [] choice = "4" -> "rf_diffusion"
      [] OTHER -> "none"

MainStart ==
    /\ pc = "idle"
    /\ \E choice \in {"1", "2", "3", "4", "5", "other"} :
         IF choice \in {"2", "3", "4"}
         THEN /\ mode' = "category"
              /\ category' = ChoiceCategory(choice)
              /\ pc' = "cat_begin"
              /\ prevAllOk' = FALSE
              /\ success' = FALSE
         ELSE IF choice = "5"
         THEN /\ mode' = "status"
              /\ success' = TRUE
              /\ pc' = "main_cleanup"
              /\ prevAllOk' = FALSE
              /\ UNCHANGED category
         ELSE /\ mode' = "all"
              /\ pc' = "all_preflight"
              /\ success' = FALSE
              /\ UNCHANGED <<category, prevAllOk>>
    /\ UNCHANGED <<models, fs, allVars, idx, required_success, any_failure, catResult,
                   report, lastExtract, dlVars, dlCalls>>
    /\ cleaned' = -1
    /\ interrupted' = FALSE
    /\ exit_code' = -1
    /\ UNCHANGED <<catsRun, lastStat, call>>

\* if __name__ == "__main__": main() -- the value main returns is dropped, and the
\* interpreter ends with status 0
ScriptExitStatus(ret) == 0

\* except KeyboardInterrupt: the interrupt can arrive anywhere inside the try block
Interrupt ==
    /\ pc \in {"all_preflight", "all_loop", "all_ret", "cat_begin", "entry", "cat_ret",
               "dl_loop", "dl_stream", "dl_ret"}
    /\ success' = FALSE
    /\ pc' = "main_cleanup"
    /\ category' = "none"
    /\ catIdx' = 0
    /\ all_required_success' = TRUE
    /\ allResult' = FALSE
    /\ idx' = 0
    /\ required_success' = TRUE
    /\ any_failure' = FALSE
    /\ catResult' = FALSE
    /\ filepath' = NoPath
    /\ attempt' = 0
    /\ dlResult' = FALSE
    /\ log' = <<>>
    /\ report' = <<>>
    /\ lastExtract' = NoExtract
    /\ UNCHANGED <<models, fs, mode, dlCalls, prevAllOk>>
    /\ interrupted' = TRUE
    /\ catsRun' = <<>>
    /\ lastStat' = NoStat
    /\ UNCHANGED <<cleaned, exit_code, call>>

\* downloader.cleanup_temp_files(), then main returns `success`
MainCleanup ==
    /\ pc = "main_cleanup"
    /\ fs' = cleanup_temp_files(fs)
    /\ prevAllOk' = (mode = "all" /\ success)
    /\ pc' = "idle"
    /\ mode' = "none"
    /\ category' = "none"
    /\ catIdx' = 0
    /\ all_required_success' = TRUE
    /\ allResult' = FALSE
    /\ idx' = 0
    /\ required_success' = TRUE
    /\ any_failure' = FALSE
    /\ catResult' = FALSE
    /\ filepath' = NoPath
    /\ attempt' = 0
    /\ dlResult' = FALSE
    /\ log' = <<>>
    /\ report' = <<>>
    /\ lastExtract' = NoExtract
    /\ dlCalls' = 0
    /\ UNCHANGED <<models, success>>
    /\ cleaned' = Cardinality(DOMAIN fs) - Cardinality(DOMAIN fs')
    /\ exit_code' = ScriptExitStatus(success)
    /\ catsRun' = <<>>
    /\ lastStat' = NoStat
    /\ UNCHANGED <<interrupted, call>>

----------------------------------------------------------------------------
(* download_all_models *)

\* (mutant) the result of the last category replaces the ones before
AfterCategoryLastWins(all_ok, cat_ok) == cat_ok

\* if not self.download_model_category(category): all_required_success = False
AfterCategory(all_ok, cat_ok) == IF ~cat_ok THEN FALSE ELSE all_ok

\* (mutant) the categories are started whatever the space check says
AllPreflightIgnored ==
    /\ pc = "all_preflight"
    /\ \E st \in StatvfsResults :
         lastStat' = Stat(st, TotalSize(models) + BatchBuffer)
    /\ all_required_success' = TRUE
    /\ catIdx' = 1
    /\ pc' = "all_loop"
    /\ UNCHANGED <<models, fs, mode, success, allResult, catVars, dlVars, dlCalls,
                   prevAllOk, catsRun, interrupted, cleaned, exit_code, call>>

AllPreflight ==
    /\ pc = "all_preflight"
    /\ \E st \in StatvfsResults :
         /\ lastStat' = Stat(st, TotalSize(models) + BatchBuffer)
         /\ IF check_disk_space(st, TotalSize(models) + BatchBuffer)
            THEN /\ all_required_success' = TRUE
                 /\ catIdx' = 1
                 /\ pc' = "all_loop"
                 /\ UNCHANGED allResult
            ELSE /\ allResult' = FALSE
                 /\ pc' = "all_ret"
                 /\ UNCHANGED <<all_required_success, catIdx>>
    /\ UNCHANGED <<models, fs, mode, success, catVars, dlVars, dlCalls, prevAllOk>>
    /\ UNCHANGED <<catsRun, interrupted, cleaned, exit_code, call>>

\* for category in self.models.keys(): the next call, or the return after the last
AllLoop ==
    /\ pc = "all_loop"
    /\ IF catIdx <= Len(models)
       THEN /\ category' = models[catIdx].name
            /\ pc' = "cat_begin"
            /\ UNCHANGED allResult
       ELSE /\ allResult' = all_required_success
            /\ pc' = "all_ret"
            /\ UNCHANGED category
    /\ UNCHANGED <<models, fs, mode, success, catIdx, all_required_success, idx,
                   required_success, any_failure, catResult, report, lastExtract,
                   dlVars, dlCalls, prevAllOk>>
    /\ lastStat' = NoStat
    /\ UNCHANGED <<catsRun, interrupted, cleaned, exit_code, call>>

AllReturn ==
    /\ pc = "all_ret"
    /\ success' = allResult
    /\ pc' = "main_cleanup"
    /\ catIdx' = 0
    /\ all_required_success' = TRUE
    /\ allResult' = FALSE
    /\ UNCHANGED <<models, fs, mode, catVars, dlVars, dlCalls, prevAllOk>>
    /\ lastStat' = NoStat
    /\ catsRun' = <<>>
    /\ UNCHANGED <<interrupted, cleaned, exit_code, call>>

----------------------------------------------------------------------------
(* download_model_category *)

\* (mutant) any failure, of an optional entry too, clears required_success
AfterFailureAnyEntry(req_success, is_required) == FALSE

\* if is_required: required_success = False
AfterFailure(req_success, is_required) == IF is_required THEN FALSE ELSE req_success

\* Lines 178-196: the unknown category, the space check, the locals
CatBegin ==
    /\ pc = "cat_begin"
    /\ IF ~Known(category)
       THEN /\ catResult' = FALSE
            /\ pc' = "cat_ret"
            /\ lastStat' = NoStat
            /\ UNCHANGED <<idx, required_success, any_failure>>
       ELSE \E st \in StatvfsResults :
              /\ lastStat' = Stat(st, SumSizes(Files(category)) + CategoryBuffer)
              /\ IF check_disk_space(st, SumSizes(Files(category)) + CategoryBuffer)
                 THEN /\ any_failure' = FALSE
                      /\ required_success' = TRUE
                      /\ idx' = 1
                      /\ pc' = "entry"
                      /\ UNCHANGED catResult
                 ELSE /\ catResult' = FALSE
                      /\ pc' = "cat_ret"
                      /\ UNCHANGED <<idx, required_success, any_failure>>
    /\ report' = <<>>
    /\ lastExtract' = NoExtract
    /\ UNCHANGED <<models, fs, mode, success, category, allVars, dlVars, dlCalls,
                   prevAllOk>>
    /\ UNCHANGED <<catsRun, interrupted, cleaned, exit_code, call>>

\* The loop is over: return required_success
CatFinish ==
    /\ pc = "entry"
    /\ idx > Len(Files(category))
    /\ catResult' = required_success
    /\ pc' = "cat_ret"
    /\ lastExtract' = NoExtract
    /\ UNCHANGED <<models, fs, mode, success, category, allVars, idx, required_success,
                   any_failure, report, dlVars, dlCalls, prevAllOk>>
    /\ lastStat' = NoStat
    /\ UNCHANGED <<catsRun, interrupted, cleaned, exit_code, call>>

\* Skip if already exists and is valid
EntrySkip ==
    /\ pc = "entry"
    /\ idx <= Len(Files(category))
    /\ LET e == Files(category)[idx] IN
         /\ verify_file(fs, FinalPath(category, e), e.size_gb)
         /\ report' = Append(report, [entry |-> idx, result |-> "skipped"])
    /\ idx' = idx + 1
    /\ lastExtract' = NoExtract
    /\ UNCHANGED <<models, fs, pc, mode, success, category, allVars, required_success,
                   any_failure, catResult, dlVars, dlCalls, prevAllOk>>
    /\ lastStat' = NoStat
    /\ UNCHANGED <<catsRun, interrupted, cleaned, exit_code, call>>

\* self.download_file(info["url"], temp_filepath) is called
EntryDownload ==
    /\ pc = "entry"
    /\ idx <= Len(Files(category))
    /\ LET e == Files(category)[idx] IN
         /\ ~verify_file(fs, FinalPath(category, e), e.size_gb)
         /\ filepath' = TempPath(category, e)
    /\ attempt' = 0
    /\ log' = <<>>
    /\ dlCalls' = dlCalls + 1
    /\ pc' = "dl_loop"
    /\ lastExtract' = NoExtract
    /\ UNCHANGED <<models, fs, mode, success, category, allVars, idx, required_success,
                   any_failure, catResult, dlResult, report, prevAllOk>>
    /\ lastStat' = NoStat
    /\ UNCHANGED <<catsRun, interrupted, cleaned, exit_code, call>>

\* What follows download_file's return for one entry (lines 211-236); the loop
\* then moves to the next entry.
EntryDone(result) ==
    /\ report' = Append(report, [entry |-> idx, result |-> result])
    /\ idx' = idx + 1
    /\ pc' = "entry"
    /\ filepath' = NoPath
    /\ attempt' = 0
    /\ dlResult' = FALSE
    /\ log' = <<>>
    /\ UNCHANGED <<models, mode, success, category, allVars, catResult, dlCalls, prevAllOk>>

EntryFailed(result) ==
    /\ any_failure' = TRUE
    /\ required_success' = AfterFailure(required_success, Files(category)[idx].required)
    /\ EntryDone(result)

DownloadFailed ==
    /\ pc = "dl_ret"
    /\ ~dlResult
    /\ EntryFailed("download_failed")
    /\ UNCHANGED <<fs, lastExtract>>
    /\ UNCHANGED <<catsRun, lastStat, interrupted, cleaned, exit_code, call>>

\* (mutant) a verification mismatch makes the entry be downloaded again
VerifyFailedRetries ==
    /\ pc = "dl_ret"
    /\ dlResult
    /\ ~verify_file(fs, filepath, Files(category)[idx].size_gb)
    /\ pc' = "dl_loop"
    /\ attempt' = 0
    /\ log' = <<>>
    /\ dlCalls' = dlCalls + 1
    /\ UNCHANGED <<models, fs, mode, success, allVars, catVars, filepath, dlResult,
                   prevAllOk, catsRun, lastStat, interrupted, cleaned, exit_code, call>>

VerifyFailed ==
    /\ pc = "dl_ret"
    /\ dlResult
    /\ ~verify_file(fs, filepath, Files(category)[idx].size_gb)
    /\ EntryFailed("verify_failed")
    /\ UNCHANGED <<fs, lastExtract>>
    /\ UNCHANGED <<catsRun, lastStat, interrupted, cleaned, exit_code, call>>

\* (mutant) the downloaded file is moved into place without being verified
RenameEntryUnverified ==
    /\ pc = "dl_ret"
    /\ dlResult
    /\ LET e == Files(category)[idx] IN
         /\ ~e.extract
         /\ fs' = Rename(fs, filepath, FinalPath(category, e))
    /\ EntryDone("ok")
    /\ UNCHANGED <<required_success, any_failure, lastExtract>>
    /\ UNCHANGED <<catsRun, lastStat, interrupted, cleaned, exit_code, call>>

\* Move to final location
RenameEntry ==
    /\ pc = "dl_ret"
    /\ dlResult
    /\ LET e == Files(category)[idx] IN
         /\ verify_file(fs, filepath, e.size_gb)
         /\ ~e.extract
         /\ fs' = Rename(fs, filepath, FinalPath(category, e))
    /\ EntryDone("ok")
    /\ UNCHANGED <<required_success, any_failure, lastExtract>>
    /\ UNCHANGED <<catsRun, lastStat, interrupted, cleaned, exit_code, call>>

\* Extract if needed: the archive is removed after a successful extraction only
ExtractEntry ==
    /\ pc = "dl_ret"
    /\ dlResult
    /\ LET e == Files(category)[idx] IN
         /\ verify_file(fs, filepath, e.size_gb)
         /\ e.extract
         /\ \E a \in Archives(e.name), flt \in TarFilters :
              LET r == extract_archive(fs, filepath, CategoryDir(category), a, flt) IN
                /\ lastExtract' =
                     [called |-> TRUE, format |-> a.format,
                      safe |-> \A k \in 1..Len(a.members) : ~Suspicious(a.members[k]),
                      ok |-> r.ok]
                /\ IF r.ok
                   THEN /\ fs' = Unlink(r.fs, filepath)
                        /\ EntryDone("ok")
                        /\ UNCHANGED <<required_success, any_failure>>
                   ELSE /\ fs' = r.fs
                        /\ EntryFailed("extract_failed")
    /\ UNCHANGED <<catsRun, lastStat, interrupted, cleaned, exit_code, call>>

\* The caller takes the result: download_all_models' loop, or main
CatReturn ==
    /\ pc = "cat_ret"
    /\ IF mode = "all"
       THEN /\ all_required_success' = AfterCategory(all_required_success, catResult)
            /\ catIdx' = catIdx + 1
            /\ pc' = "all_loop"
            /\ UNCHANGED success
       ELSE /\ success' = catResult
            /\ pc' = "main_cleanup"
            /\ UNCHANGED <<all_required_success, catIdx>>
    /\ category' = "none"
    /\ idx' = 0
    /\ required_success' = TRUE
    /\ any_failure' = FALSE
    /\ catResult' = FALSE
    /\ report' = <<>>
    /\ lastExtract' = NoExtract
    /\ UNCHANGED <<models, fs, mode, allResult, dlVars, dlCalls, prevAllOk>>
    /\ catsRun' = IF mode = "all"
                   THEN Append(catsRun, [name |-> category, result |-> catResult])
                   ELSE catsRun
    /\ lastStat' = NoStat
    /\ UNCHANGED <<interrupted, cleaned, exit_code, call>>

----------------------------------------------------------------------------
(* download_file *)

\* (mutant) the handler sleeps and goes on after the last attempt too
SleepsAfterEveryAttempt(a) == TRUE

\* time.sleep before the next attempt: if attempt < max_retries - 1
SleepsAfter(a) == a < max_retries - 1

\* except (RequestException, IOError): the file is removed if it exists; then a
\* sleep and the next attempt, or return False after the last one
OnTransportError ==
    /\ fs' = IF Exists(fs, filepath) THEN Unlink(fs, filepath) ELSE fs
    /\ IF SleepsAfter(attempt)
       THEN /\ log' = log \o <<"error", "sleep">>
            /\ attempt' = attempt + 1
            /\ pc' = "dl_loop"
            /\ UNCHANGED dlResult
       ELSE /\ log' = Append(log, "error")
            /\ dlResult' = FALSE
            /\ pc' = "dl_ret"
            /\ UNCHANGED attempt
    /\ UNCHANGED <<models, mode, success, allVars, catVars, filepath, dlCalls, prevAllOk>>

\* session.get or raise_for_status raises
DlRequestFails ==
    /\ pc = "dl_loop"
    /\ attempt < max_retries
    /\ OnTransportError
    /\ UNCHANGED <<catsRun, lastStat, interrupted, cleaned, exit_code, call>>

\* open(filepath, 'wb'): the file exists and is empty
DlOpen ==
    /\ pc = "dl_loop"
    /\ attempt < max_retries
    /\ fs' = Write(fs, filepath, File(0, FALSE, "net"))
    /\ pc' = "dl_stream"
    /\ UNCHANGED <<models, mode, success, allVars, catVars, dlVars, dlCalls, prevAllOk>>
    /\ UNCHANGED <<catsRun, lastStat, interrupted, cleaned, exit_code, call>>

\* The for loop ran out (its last attempt ended in `continue`): return False
DlExhausted ==
    /\ pc = "dl_loop"
    /\ attempt = max_retries
    /\ dlResult' = FALSE
    /\ pc' = "dl_ret"
    /\ UNCHANGED <<models, fs, mode, success, allVars, catVars, filepath, attempt, log,
                   dlCalls, prevAllOk>>
    /\ UNCHANGED <<catsRun, lastStat, interrupted, cleaned, exit_code, call>>

\* f.write(chunk)
DlWriteChunk ==
    /\ pc = "dl_stream"
    /\ \E s \in NetSizes(Files(category)[idx]) :
         /\ s > fs[filepath].size
         /\ fs' = Write(fs, filepath, File(s, FALSE, "net"))
    /\ UNCHANGED <<models, pc, mode, success, allVars, catVars, dlVars, dlCalls, prevAllOk>>
    /\ UNCHANGED <<catsRun, lastStat, interrupted, cleaned, exit_code, call>>

\* iter_content or f.write raises
DlStreamError ==
    /\ pc = "dl_stream"
    /\ OnTransportError
    /\ UNCHANGED <<catsRun, lastStat, interrupted, cleaned, exit_code, call>>

\* (mutant) an empty file is fetched again without counting the attempt
DlStreamEndSameAttempt ==
    /\ pc = "dl_stream"
    /\ fs' = Write(fs, filepath, File(fs[filepath].size, TRUE, "net"))
    /\ IF fs[filepath].size > 0
       THEN /\ dlResult' = TRUE
            /\ log' = Append(log, "ok")
            /\ pc' = "dl_ret"
       ELSE /\ pc' = "dl_loop"
            /\ UNCHANGED <<dlResult, log>>
    /\ UNCHANGED <<models, mode, success, allVars, catVars, filepath, attempt, dlCalls,
                   prevAllOk, catsRun, lastStat, interrupted, cleaned, exit_code, call>>

\* The stream ends and the file is closed: True if it is not empty, else retry
DlStreamEnd ==
    /\ pc = "dl_stream"
    /\ fs' = Write(fs, filepath, File(fs[filepath].size, TRUE, "net"))
    /\ IF fs[filepath].size > 0
       THEN /\ dlResult' = TRUE
            /\ log' = Append(log, "ok")
            /\ pc' = "dl_ret"
            /\ UNCHANGED attempt
       ELSE /\ log' = IF SleepsAfter(attempt) THEN log \o <<"empty", "sleep">>
                      ELSE Append(log, "empty")
            /\ attempt' = attempt + 1
            /\ pc' = "dl_loop"
            /\ UNCHANGED dlResult
    /\ UNCHANGED <<models, mode, success, allVars, catVars, filepath, dlCalls, prevAllOk>>
    /\ UNCHANGED <<catsRun, lastStat, interrupted, cleaned, exit_code, call>>

----------------------------------------------------------------------------

Next ==
    \/ MainStart \/ Interrupt \/ MainCleanup
    \/ AllPreflight \/ AllLoop \/ AllReturn
    \/ CatBegin \/ CatFinish \/ EntrySkip \/ EntryDownload
    \/ DownloadFailed \/ VerifyFailed \/ RenameEntry \/ ExtractEntry \/ CatReturn
    \/ DlRequestFails \/ DlOpen \/ DlExhausted \/ DlWriteChunk \/ DlStreamError
    \/ DlStreamEnd

Spec == Init /\ [][Next]_vars

\* A fresh session: the models directory starts empty (the runs of main that
\* follow one another leave their files to the next)
LiveInit == Init /\ fs = NoFiles

\* The program keeps running: every call made (a request, a read of the stream, a
\* sleep) returns or raises in the end, and the user answers main's prompt.
SpecLive == LiveInit /\ [][Next]_vars /\ WF_vars(Next)

----------------------------------------------------------------------------
(* verify_file called directly: on a path that holds no file or a file of any size
   of the grid, with no expected size or with one *)

VerifyPath == <<CategoryDir("proteinmpnn"), <<"model", "pt">>>>

ExpectedSizes == {NoSize, 50, 100}

VerifyInit ==
    /\ models = BuiltinModels
    /\ fs \in {NoFiles} \cup
               { Write(NoFiles, VerifyPath, File(s, TRUE, "net")) : s \in 0..MaxGridSize }
    /\ call \in { [expected |-> x, done |-> FALSE, result |-> FALSE] : x \in ExpectedSizes }
    /\ pc = "verify"
    /\ mode = "none"
    /\ success = FALSE
    /\ category = "none"
    /\ catIdx = 0
    /\ all_required_success = TRUE
    /\ allResult = FALSE
    /\ idx = 0
    /\ required_success = TRUE
    /\ any_failure = FALSE
    /\ catResult = FALSE
    /\ filepath = NoPath
    /\ attempt = 0
    /\ dlResult = FALSE
    /\ log = <<>>
    /\ report = <<>>
    /\ dlCalls = 0
    /\ lastExtract = NoExtract
    /\ prevAllOk = FALSE
    /\ catsRun = <<>>
    /\ lastStat = NoStat
    /\ interrupted = FALSE
    /\ cleaned = -1
    /\ exit_code = -1

VerifyCall ==
    /\ pc = "verify"
    /\ ~call.done
    /\ call' = [call EXCEPT !.done = TRUE,
                            !.result = verify_file(fs, VerifyPath, call.expected)]
    /\ UNCHANGED <<models, fs, pc, mode, success, allVars, catVars, dlVars, dlCalls,
                   prevAllOk, catsRun, lastStat, interrupted, cleaned, exit_code>>

SpecVerify == VerifyInit /\ [][VerifyCall]_vars

----------------------------------------------------------------------------
(* extract_archive called directly: on a file of any kind of name, holding any
   content, with a target directory that is empty or already holds a file *)

ExtractDir == CategoryDir("alphafold")

ExtractNames ==
    { <<"a", "tar">>, <<"a", "tar", "gz">>, <<"a", "zip">>, <<"a", "gz">>,
      <<"a", "npz">>, <<"a">>, <<"params_model_1", "npz", "tmp">>,
      <<"a", "zip", "tmp">>, <<"a", "gz", "tmp">>, <<"a", "tar", "tmp">> }

ExtractInit ==
    /\ models = BuiltinModels
    /\ filepath \in { <<ExtractDir, n>> : n \in ExtractNames }
    /\ fs \in { Write(d, filepath, File(50, TRUE, "net")) :
                 d \in {NoFiles, Write(NoFiles, <<ExtractDir, <<"old", "dat">>>>,
                                       File(50, TRUE, "net"))} }
    /\ pc = "extract"
    /\ mode = "none"
    /\ success = FALSE
    /\ category = "none"
    /\ catIdx = 0
    /\ all_required_success = TRUE
    /\ allResult = FALSE
    /\ idx = 0
    /\ required_success = TRUE
    /\ any_failure = FALSE
    /\ catResult = FALSE
    /\ attempt = 0
    /\ dlResult = FALSE
    /\ log = <<>>
    /\ report = <<>>
    /\ dlCalls = 0
    /\ lastExtract = NoExtract
    /\ prevAllOk = FALSE
    /\ catsRun = <<>>
    /\ lastStat = NoStat
    /\ interrupted = FALSE
    /\ cleaned = -1
    /\ exit_code = -1
    /\ call = NoCall

ExtractCall ==
    /\ pc = "extract"
    /\ \E a \in Archives(Stem(filepath[2])), flt \in TarFilters :
         LET r == extract_archive(fs, filepath, ExtractDir, a, flt) IN
           /\ fs' = r.fs
           /\ lastExtract' =
                [called |-> TRUE, format |-> a.format,
                 safe |-> \A k \in 1..Len(a.members) : ~Suspicious(a.members[k]),
                 ok |-> r.ok]
    /\ pc' = "extract_done"
    /\ UNCHANGED <<models, mode, success, allVars, category, idx, required_success,
                   any_failure, catResult, report, dlVars, dlCalls, prevAllOk,
                   catsRun, lastStat, interrupted, cleaned, exit_code, call>>

SpecExtract == ExtractInit /\ [][ExtractCall]_vars

----------------------------------------------------------------------------
(* src/colab_setup.py: ColabSetup.run_setup, as far as it downloads the model
   files of download_proteinmpnn_models and setup_rf_diffusion. download_file
   writes to the final path itself. *)

\* The files, in the order run_setup gets to them, with the size each URL serves
SetupModels ==
    << [dir |-> "proteinmpnn", name |-> <<"proteinmpnn_v_48_020", "pt">>, size |-> 50],
       [dir |-> "proteinmpnn", name |-> <<"ligandmpnn_v_32_010_25", "pt">>, size |-> 50],
       [dir |-> "rf_diffusion", name |-> <<"rf_diffusion_all_atom", "pt">>, size |-> 200] >>

SetupPath(i) == <<CategoryDir(SetupModels[i].dir), SetupModels[i].name>>

\* The sizes a file passes through while its chunks are written
SetupSizes(i) == {SetupModels[i].size \div 2, SetupModels[i].size}

SetupInit ==
    /\ models = BuiltinModels
    /\ fs = NoFiles
    /\ pc = "setup_idle"
    /\ mode = "none"
    /\ success = FALSE
    /\ category = "none"
    /\ catIdx = 0
    /\ all_required_success = TRUE
    /\ allResult = FALSE
    /\ idx = 0
    /\ required_success = TRUE
    /\ any_failure = FALSE
    /\ catResult = FALSE
    /\ filepath = NoPath
    /\ attempt = 0
    /\ dlResult = FALSE
    /\ log = <<>>
    /\ report = <<>>
    /\ dlCalls = 0
    /\ lastExtract = NoExtract
    /\ prevAllOk = FALSE
    /\ catsRun = <<>>
    /\ lastStat = NoStat
    /\ interrupted = FALSE
    /\ cleaned = -1
    /\ exit_code = -1
    /\ call = NoCall

\* What no step of run_setup changes
setupFrame ==
    <<models, mode, success, category, allVars, required_success, any_failure,
      catResult, report, lastExtract, attempt, log, dlCalls, prevAllOk, catsRun,
      lastStat, cleaned, exit_code, call>>

\* run_setup gets to download_proteinmpnn_models
SetupStart ==
    /\ pc = "setup_idle"
    /\ pc' = "setup_entry"
    /\ idx' = 1
    /\ interrupted' = FALSE
    /\ UNCHANGED <<fs, filepath, dlResult, setupFrame>>

\* if not filepath.exists(): ... else: "already exists"
SetupSkip ==
    /\ pc = "setup_entry"
    /\ idx <= Len(SetupModels)
    /\ Exists(fs, SetupPath(idx))
    /\ idx' = idx + 1
    /\ UNCHANGED <<fs, pc, filepath, dlResult, interrupted, setupFrame>>

\* setup_rf_diffusion: git clone, chdir or pip raises before the download; the
\* except Exception of setup_rf_diffusion ends the function
SetupRfFails ==
    /\ pc = "setup_entry"
    /\ idx = Len(SetupModels)
    /\ idx' = idx + 1
    /\ UNCHANGED <<fs, pc, filepath, dlResult, interrupted, setupFrame>>

\* self.download_file(model_url, filepath) is called
SetupDownload ==
    /\ pc = "setup_entry"
    /\ idx <= Len(SetupModels)
    /\ ~Exists(fs, SetupPath(idx))
    /\ filepath' = SetupPath(idx)
    /\ pc' = "setup_get"
    /\ UNCHANGED <<fs, idx, dlResult, interrupted, setupFrame>>

\* except Exception: the file is removed if it exists, and False is returned
SetupOnError ==
    /\ fs' = IF Exists(fs, filepath) THEN Unlink(fs, filepath) ELSE fs
    /\ dlResult' = FALSE
    /\ pc' = "setup_ret"
    /\ UNCHANGED <<idx, filepath, interrupted, setupFrame>>

\* requests.get or raise_for_status raises
SetupRequestFails ==
    /\ pc = "setup_get"
    /\ SetupOnError

\* open(filepath, "wb")
SetupOpen ==
    /\ pc = "setup_get"
    /\ fs' = Write(fs, filepath, File(0, FALSE, "net"))
    /\ pc' = "setup_stream"
    /\ UNCHANGED <<idx, filepath, dlResult, interrupted, setupFrame>>

\* f.write(chunk)
SetupWriteChunk ==
    /\ pc = "setup_stream"
    /\ \E s \in SetupSizes(idx) :
         /\ s > fs[filepath].size
         /\ fs' = Write(fs, filepath, File(s, FALSE, "net"))
    /\ UNCHANGED <<pc, idx, filepath, dlResult, interrupted, setupFrame>>

\* iter_content or f.write raises
SetupStreamError ==
    /\ pc = "setup_stream"
    /\ SetupOnError

\* The stream has delivered the whole file: it is closed and True is returned
SetupStreamEnd ==
    /\ pc = "setup_stream"
    /\ fs[filepath].size = SetupModels[idx].size
    /\ fs' = Write(fs, filepath, File(fs[filepath].size, TRUE, "net"))
    /\ dlResult' = TRUE
    /\ pc' = "setup_ret"
    /\ UNCHANGED <<idx, filepath, interrupted, setupFrame>>

\* The caller prints the outcome and goes to the next file
SetupEntryDone ==
    /\ pc = "setup_ret"
    /\ idx' = idx + 1
    /\ filepath' = NoPath
    /\ dlResult' = FALSE
    /\ pc' = "setup_entry"
    /\ UNCHANGED <<fs, interrupted, setupFrame>>

\* setup_rf_diffusion has returned: the run goes on to its end
SetupFinish ==
    /\ pc = "setup_entry"
    /\ idx > Len(SetupModels)
    /\ idx' = 0
    /\ pc' = "setup_idle"
    /\ UNCHANGED <<fs, filepath, dlResult, interrupted, setupFrame>>

\* KeyboardInterrupt: it is no Exception, so neither download_file's nor
\* setup_rf_diffusion's handler catches it, and it ends the run where it is
SetupInterrupt ==
    /\ pc \in {"setup_entry", "setup_get", "setup_stream", "setup_ret"}
    /\ interrupted' = TRUE
    /\ idx' = 0
    /\ filepath' = NoPath
    /\ dlResult' = FALSE
    /\ pc' = "setup_idle"
    /\ UNCHANGED <<fs, setupFrame>>

SetupNext ==
    \/ SetupStart \/ SetupSkip \/ SetupRfFails \/ SetupDownload
    \/ SetupRequestFails \/ SetupOpen \/ SetupWriteChunk \/ SetupStreamError
    \/ SetupStreamEnd \/ SetupEntryDone \/ SetupFinish \/ SetupInterrupt

SpecSetup == SetupInit /\ [][SetupNext]_vars

----------------------------------------------------------------------------
(* Properties *)

Failures == {"download_failed", "verify_failed", "extract_failed"}

EntryOf(i) == Files(category)[report[i].entry]

\* download_model_category got past its space check (it entered the loop)
EnteredLoop == Known(category) /\ idx > 0

\* C1: extract_archive never materialises a file outside extract_dir: every file
\* there is lies inside the directory of one of the catalog's categories, whatever
\* the members of the archives that were unpacked.
C1_NoFileOutsideExtractDir ==
    \A p \in DOMAIN fs :
        \E i \in 1..Len(models) : Inside(CategoryDir(models[i].name), p)

\* C2: whenever download_model_category returns True, every required entry of the
\* category has a file at its final path that exists, is not empty and, when a size
\* is declared, is within the tolerance of it.
C2_TrueMeansRequiredFilesValid ==
    (pc = "cat_ret" /\ catResult) =>
        \A j \in 1..Len(Files(category)) :
            LET e == Files(category)[j]
                p == FinalPath(category, e)
            IN e.required =>
                 /\ Exists(fs, p)
                 /\ fs[p].size > 0
                 /\ verify_file(fs, p, e.size_gb)

\* C3: when download_all_models has returned True and is run again with nothing
\* else changing the files, the second run calls download_file zero times.
C3_SecondRunDownloadsNothing == prevAllOk => dlCalls = 0

\* C4: download_file is only ever given the entry's temporary path, which is not a
\* final path; no final path ever holds a file that is still being written; and no
\* step of the program changes a final artifact that passes verify_file.
C4_DownloadsOnlyToTemp ==
    /\ [](/\ pc \in {"dl_loop", "dl_stream", "dl_ret"} =>
                /\ filepath = TempPath(category, Files(category)[idx])
                /\ filepath # FinalPath(category, Files(category)[idx])
                /\ filepath \notin FinalPaths
          /\ \A p \in FinalPaths : Exists(fs, p) => fs[p].whole)
    /\ [][\A i \in 1..Len(models) : \A j \in 1..Len(models[i].files) :
            LET e == models[i].files[j]
                p == FinalPath(models[i].name, e)
            IN verify_file(fs, p, e.size_gb) => Exists(fs', p) /\ fs'[p] = fs[p]]_vars

\* C4 witness: a download was aborted part-way, leaving a partly written temporary
\* file, while a final artifact of the catalog passes verify_file.
C4_Witness ==
    /\ pc = "main_cleanup"
    /\ \E p \in DOMAIN fs : IsTemp(p) /\ ~fs[p].whole /\ fs[p].size > 0
    /\ \E i \in 1..Len(models) : \E j \in 1..Len(models[i].files) :
         verify_file(fs, FinalPath(models[i].name, models[i].files[j]),
                     models[i].files[j].size_gb)

\* C5: for an entry marked extract whose download succeeded and verified and whose
\* content is a well-formed archive, the extraction succeeds, the temporary archive
\* is deleted and the entry ends successful. Stated for the archives the built-in
\* alphafold URL serves: a tar archive whose member names are all safe.
C5_WellFormedArchiveIsExtracted ==
    (lastExtract.called /\ lastExtract.format = "tar" /\ lastExtract.safe) =>
        /\ lastExtract.ok
        /\ report[Len(report)].result = "ok"
        /\ ~Exists(fs, TempPath(category, EntryOf(Len(report))))

\* C6: once the space check has passed, download_model_category returns False if
\* and only if some required entry ended in failure; failures of optional entries
\* do not make it return False.
C6_FalseIffRequiredFailed ==
    (pc = "cat_ret" /\ EnteredLoop) =>
        (catResult = FALSE <=>
            \E i \in 1..Len(report) :
                EntryOf(i).required /\ report[i].result \in Failures)

\* C6 witness: the call returns True although an optional entry failed, next to a
\* required entry that did not.
C6_Witness ==
    /\ pc = "cat_ret" /\ EnteredLoop /\ catResult
    /\ \E i \in 1..Len(report) : ~EntryOf(i).required /\ report[i].result \in Failures
    /\ \E i \in 1..Len(report) : EntryOf(i).required /\ report[i].result = "ok"

\* C7: every entry of the category is attempted exactly once, in catalog order,
\* however the earlier ones ended; and when one entry failed and another succeeded,
\* the succeeding entry's final artifact exists and passes verify_file at the return.
C7_PartialFailureIsolation ==
    (pc = "cat_ret" /\ EnteredLoop) =>
        /\ Len(report) = Len(Files(category))
        /\ \A i \in 1..Len(report) : report[i].entry = i
        /\ \A i, j \in 1..Len(report) :
             (report[j].result \in Failures /\ report[i].result = "ok") =>
                 verify_file(fs, FinalPath(category, EntryOf(i)), EntryOf(i).size_gb)

OnlyTransportErrors(l) == l # <<>> /\ \A i \in 1..Len(l) : l[i] \in {"error", "sleep"}

Count(l, x) == Cardinality({i \in 1..Len(l) : l[i] = x})

\* C8: when every attempt of a download_file call failed with a transport error,
\* the call made exactly max_retries attempts, returns False, leaves no file at its
\* destination, and slept between the attempts but not after the last.
C8_RetryExhaustion ==
    (pc = "dl_ret" /\ OnlyTransportErrors(log)) =>
        /\ Count(log, "error") = max_retries
        /\ dlResult = FALSE
        /\ ~Exists(fs, filepath)
        /\ Len(log) = 2 * max_retries - 1
        /\ \A i \in 1..Len(log) : log[i] = (IF i % 2 = 1 THEN "error" ELSE "sleep")

\* C8 witness: download_file returns after attempts that all failed in transport.
C8_Witness == pc = "dl_ret" /\ OnlyTransportErrors(log)

LastAttempt(l) == IF l[Len(l)] = "sleep" THEN l[Len(l) - 1] ELSE l[Len(l)]

\* C9: download_file never returns True for a zero-byte file, and an attempt that
\* ends with an empty file is retried like a transport failure: the attempt's file
\* is removed, and after max_retries such attempts the call returns False.
C9_EmptyRetriedLikeTransportFailure ==
    /\ (pc = "dl_ret" /\ dlResult) => fs[filepath].size > 0
    /\ (pc \in {"dl_loop", "dl_ret"} /\ log # <<>> /\ LastAttempt(log) = "empty") =>
          ~Exists(fs, filepath)
    /\ (pc = "dl_ret" /\ Count(log, "empty") = max_retries) => dlResult = FALSE

\* C10: when download_file returned False for an entry, no file remains at that
\* entry's temporary path when download_model_category returns.
C10_NoTempAfterFailedDownload ==
    pc = "cat_ret" =>
        \A i \in 1..Len(report) :
            report[i].result = "download_failed" =>
                ~Exists(fs, TempPath(category, EntryOf(i)))

\* C11: once its space check has passed, download_all_models calls
\* download_model_category for every category of the catalog exactly once, in
\* catalog order, going on after a category that returned False, and it returns
\* True if and only if every one of those calls returned True.
C11_EveryCategoryOnce ==
    /\ (mode = "all" /\ catIdx > 0) =>
          /\ Len(catsRun) <= Len(models)
          /\ \A i \in 1..Len(catsRun) : catsRun[i].name = models[i].name
    /\ (pc = "all_ret" /\ catIdx > 0) =>
          /\ Len(catsRun) = Len(models)
          /\ allResult = (\A i \in 1..Len(catsRun) : catsRun[i].result)

\* C11 witness: download_all_models returns after three categories, the first of
\* which returned False and the last True.
C11_Witness ==
    /\ pc = "all_ret"
    /\ Len(catsRun) = 3
    /\ ~catsRun[1].result
    /\ catsRun[3].result

\* The files named "*.tmp" that lie directly in a category directory
TmpLeft(files) ==
    { p \in DOMAIN files :
        /\ \E c \in CategoryNames : p[1] = CategoryDir(c)
        /\ Len(p[2]) > 1 /\ p[2][Len(p[2])] = "tmp" }

\* C12: a run of main() only ends through cleanup_temp_files, whatever the batch's
\* outcome (all succeeded, entries failed, the space check failed, the user
\* interrupted it); when it has ended, and until the next run starts, no "*.tmp"
\* file is left in any category directory.
C12_CleanupAfterEveryBatch ==
    /\ [][(pc # "idle" /\ pc' = "idle") =>
            (pc = "main_cleanup" /\ cleaned' >= 0 /\ TmpLeft(fs') = {})]_vars
    /\ [](cleaned >= 0 => (pc = "idle" /\ TmpLeft(fs) = {}))

\* C12 witness: a batch that failed without being interrupted has ended, and the
\* cleanup removed a temporary file it had left.
C12_Witness == pc = "idle" /\ cleaned > 0 /\ ~success /\ ~interrupted

\* Every entry of category c already has a final artifact that passes verify_file
AllValid(c) ==
    \A j \in 1..Len(Files(c)) :
        verify_file(fs, FinalPath(c, Files(c)[j]), Files(c)[j].size_gb)

\* C13: the space check of download_model_category demands only the sizes of the
\* entries whose final artifact does not already pass verify_file (plus the
\* margin): when every entry of the category is already valid the check passes
\* and the call succeeds, whatever the free space is.
C13_PreflightCountsMissingOnly ==
    (pc = "cat_ret" /\ Known(category) /\ AllValid(category)) =>
        (idx > 0 /\ catResult)

\* The caller of the check_disk_space call just made went on (the call returned True)
SpaceCheckPassed == pc \in {"all_loop", "entry"}

\* C14: check_disk_space fails open. When os.statvfs raises, the call returns True
\* and the category or the batch goes on; when it succeeds, the call returns True
\* exactly when the free space is at least the required amount.
C14_DiskCheckFailsOpen ==
    lastStat.called =>
        /\ pc \in {"all_loop", "all_ret", "entry", "cat_ret"}
        /\ ~lastStat.ok => SpaceCheckPassed
        /\ lastStat.ok => (SpaceCheckPassed <=> lastStat.free_gb >= lastStat.required_gb)

\* C14 witness: download_model_category entered its loop after a space check in
\* which os.statvfs raised.
C14_Witness == lastStat.called /\ ~lastStat.ok /\ pc = "entry"

\* C15: verify_file returns False when the path does not exist. With an expected
\* size it returns True exactly when the actual size is within 0.2 GB of it: for
\* 1.0 GB it passes every size from 0.8 GB to 1.2 GB and fails at 0.79 GB and
\* 1.21 GB. With no expected size it returns True for any existing file.
C15_VerifyFileTolerance ==
    call.done =>
        /\ ~Exists(fs, VerifyPath) => ~call.result
        /\ Exists(fs, VerifyPath) =>
             LET size == fs[VerifyPath].size IN
               /\ call.expected = NoSize => call.result
               /\ call.expected # NoSize =>
                    (call.result <=>
                        (call.expected - 20 <= size /\ size <= call.expected + 20))
               /\ (call.expected = 100 /\ size \in 80..120) => call.result
               /\ (call.expected = 100 /\ size \in {79, 121}) => ~call.result

\* C15 witness: verify_file has refused a file of 1.21 GB where 1.0 GB is expected.
C15_Witness ==
    /\ call.done /\ call.expected = 100 /\ ~call.result
    /\ Exists(fs, VerifyPath) /\ fs[VerifyPath].size = 121

\* C16: the program run as a script signals failure to its invoker: when a run has
\* ended, its exit status is zero when the batch's overall success is true and
\* non-zero when it is false. Stated for the runs on the built-in catalog that
\* were not interrupted.
C16_ExitStatusSignalsFailure ==
    (pc = "idle" /\ exit_code >= 0 /\ ~interrupted /\ models = BuiltinModels) =>
        (exit_code = 0 <=> success)

\* C17: when extract_archive failed for an entry, the entry is recorded as failed
\* (the call returns False when it is required), its downloaded archive still
\* exists at the temporary path when download_model_category returns, and nothing
\* in the target directory makes the entry pass the skip test of a later run.
C17_FailedExtractionKeepsArchive ==
    (pc = "cat_ret" /\ EnteredLoop) =>
        \A i \in 1..Len(report) :
            report[i].result = "extract_failed" =>
                /\ EntryOf(i).required => ~catResult
                /\ Exists(fs, TempPath(category, EntryOf(i)))
                /\ ~verify_file(fs, FinalPath(category, EntryOf(i)), EntryOf(i).size_gb)

\* download_file returned True for a temporary file that fails verify_file
Mismatch ==
    /\ pc = "dl_ret"
    /\ dlResult
    /\ ~verify_file(fs, filepath, Files(category)[idx].size_gb)

\* C18: a verification mismatch is surfaced, not retried. Within one call of
\* download_model_category a download_file call is only started for the entry the
\* loop is at, and when it has returned the loop moves to the next entry, so there
\* is at most one per entry; an entry whose downloaded file fails verify_file is
\* recorded as failed, clearing required_success when it is required, with no file
\* extracted, renamed or removed; and the remaining entries are still processed.
C18_VerifyMismatchSurfaced ==
    /\ [][dlCalls' > dlCalls =>
            /\ pc = "entry" /\ pc' = "dl_loop"
            /\ dlCalls' = dlCalls + 1
            /\ idx' = idx /\ Len(report) = idx - 1]_vars
    /\ [][(pc = "dl_ret" /\ ~interrupted') =>
            (pc' = "entry" /\ idx' = idx + 1 /\ Len(report') = idx)]_vars
    /\ [][(Mismatch /\ ~interrupted') =>
            /\ report'[idx].result = "verify_failed"
            /\ Files(category)[idx].required => ~required_success'
            /\ fs' = fs]_vars
    /\ []((pc = "cat_ret" /\ EnteredLoop) =>
            /\ Len(report) = Len(Files(category))
            /\ \A i \in 1..Len(report) :
                 (report[i].result = "verify_failed" /\ EntryOf(i).required) => ~catResult)

\* C18 witness: the call returns after an entry that failed verification and a
\* later entry that was downloaded and put in place.
C18_Witness ==
    /\ pc = "cat_ret"
    /\ Len(report) = 2
    /\ report[1].result = "verify_failed"
    /\ report[2].result = "ok"

BatchRefused == pc = "all_ret" /\ catIdx = 0

\* C20: download_all_models checks the free space against the total over all
\* categories (plus its margin) before any category is started. When that check
\* fails it returns False with no download_model_category call and no
\* download_file call made and no file changed; and while main runs it, no
\* category is started and no file changes before the check has passed.
C20_GlobalPreflightFirst ==
    /\ [][(pc = "all_preflight" /\ lastStat'.called /\ lastStat'.ok
              /\ lastStat'.free_gb < lastStat'.required_gb) =>
            /\ pc' = "all_ret" /\ ~allResult'
            /\ fs' = fs /\ dlCalls' = 0 /\ catsRun' = <<>> /\ category' = "none"]_vars
    /\ []((lastStat.called /\ pc \in {"all_loop", "all_ret"}) =>
            /\ lastStat.required_gb = TotalSize(models) + 200
            /\ models = BuiltinModels => lastStat.required_gb = 850)
    /\ [](BatchRefused => (~allResult /\ dlCalls = 0 /\ catsRun = <<>>))
    /\ []((mode = "all" /\ pc \in {"cat_begin", "entry", "cat_ret", "dl_loop",
                                    "dl_stream", "dl_ret"}) => catIdx >= 1)
    /\ [][(mode' = "all" /\ catIdx' = 0) => fs' = fs]_vars

\* C20 witness: download_all_models has returned because os.statvfs reported less
\* free space than the total demands.
C20_Witness == BatchRefused /\ lastStat.called /\ lastStat.ok

\* The name is of a kind extract_archive knows: it ends in ".tar", ".zip" or ".gz",
\* or it holds ".tar." somewhere
Recognised(name) ==
    \/ Len(name) > 1 /\ name[Len(name)] \in {"tar", "zip", "gz"}
    \/ \E i \in 2..(Len(name) - 1) : name[i] = "tar"

\* C21: extract_archive on a file whose name is of no recognised kind returns
\* False and leaves every file, the archive and the target directory's, as it was.
C21_UnknownKindChangesNothing ==
    /\ [][(pc = "extract" /\ ~Recognised(filepath[2])) =>
            (~lastExtract'.ok /\ fs' = fs)]_vars
    /\ []((pc = "extract_done" /\ ~Recognised(filepath[2])) =>
            (~lastExtract.ok /\ Exists(fs, filepath)))

\* C21 witness: extract_archive has refused a well-formed tar archive whose name
\* ends in ".npz.tmp".
C21_Witness ==
    /\ pc = "extract_done"
    /\ filepath[2] = <<"params_model_1", "npz", "tmp">>
    /\ lastExtract.format = "tar" /\ lastExtract.safe /\ ~lastExtract.ok

\* The step ends the entry the loop is at with the given result
Ends(result) ==
    /\ Len(report') = Len(report) + 1
    /\ report'[Len(report')].result = result

\* download_file has just returned True for the entry's temporary file, and that
\* file passes verify_file
DownloadedAndVerified ==
    /\ pc = "dl_ret"
    /\ dlResult
    /\ log # <<>> /\ log[Len(log)] = "ok"
    /\ filepath = TempPath(category, Files(category)[idx])
    /\ verify_file(fs, filepath, Files(category)[idx].size_gb)

\* C22: in download_model_category an entry's temporary file is extracted or
\* renamed, and the entry ended as successful, only in a step taken right after
\* download_file returned True for it and verify_file passed on the temporary
\* file; an entry whose final path already passes verify_file is skipped with no
\* download, no extraction and no change to any file.
C22_VerifyBeforePromotion ==
    /\ [][Ends("ok") => DownloadedAndVerified]_vars
    /\ [][(lastExtract'.called /\ pc' = "entry") => DownloadedAndVerified]_vars
    /\ [][(pc \in {"entry", "dl_ret"} /\ idx <= Len(Files(category))
            /\ ~Files(category)[idx].extract
            /\ Exists(fs, FinalPath(category, Files(category)[idx]))
            /\ Exists(fs', FinalPath(category, Files(category)[idx]))
            /\ fs'[FinalPath(category, Files(category)[idx])]
                 # fs[FinalPath(category, Files(category)[idx])])
            => DownloadedAndVerified]_vars
    /\ [][(pc = "entry" /\ idx <= Len(Files(category))
            /\ verify_file(fs, FinalPath(category, Files(category)[idx]),
                           Files(category)[idx].size_gb)
            /\ ~interrupted') =>
            (Ends("skipped") /\ fs' = fs /\ dlCalls' = dlCalls /\ ~lastExtract'.called
             /\ pc' = "entry" /\ idx' = idx + 1)]_vars

\* C22 witness: the loop has skipped a valid entry and then downloaded, verified
\* and put in place the next one.
C22_Witness ==
    /\ pc = "entry"
    /\ Len(report) = 2
    /\ report[1].result = "skipped"
    /\ report[2].result = "ok"

\* download_model_category is running and has entered its loop
InCategory ==
    Known(category) /\ pc \in {"entry", "dl_loop", "dl_stream", "dl_ret", "cat_ret"}

\* C23: when download_model_category ends an entry as successful after a download,
\* the entry's temporary path no longer exists, and for an entry that is not
\* extracted the final path holds exactly the file that was downloaded and
\* verified, whatever was at the final path before; this stays so until the call
\* returns.
C23_PromotionIsExclusive ==
    /\ [][Ends("ok") =>
            /\ ~Exists(fs', filepath)
            /\ ~Files(category)[idx].extract =>
                 /\ Exists(fs', FinalPath(category, Files(category)[idx]))
                 /\ fs'[FinalPath(category, Files(category)[idx])] = fs[filepath]]_vars
    /\ [](InCategory =>
            \A i \in 1..Len(report) :
                report[i].result = "ok" =>
                    /\ ~Exists(fs, TempPath(category, EntryOf(i)))
                    /\ ~EntryOf(i).extract =>
                         /\ verify_file(fs, FinalPath(category, EntryOf(i)),
                                        EntryOf(i).size_gb)
                         /\ fs[FinalPath(category, EntryOf(i))].whole
                         /\ fs[FinalPath(category, EntryOf(i))].size > 0)

\* C23 witness: two entries that are not extracted were downloaded and put in
\* place, and the call is about to return.
C23_Witness ==
    /\ pc = "cat_ret"
    /\ Len(report) = 2
    /\ \A i \in 1..2 : report[i].result = "ok" /\ ~EntryOf(i).extract

\* Entries in the whole catalog
RECURSIVE NumEntries(_)
NumEntries(cats) ==
    IF cats = <<>> THEN 0 ELSE Len(Head(cats).files) + NumEntries(Tail(cats))

\* Attempts the current download_file call has made
Attempts(l) == Count(l, "error") + Count(l, "empty") + Count(l, "ok")

\* C24: download_all_models terminates (it returns, or the user's interrupt unwinds
\* it) whatever the network does, as long as every attempt ends; each
\* download_file call makes at most max_retries attempts, and each entry is gone
\* over at most once.
C24_Termination ==
    /\ (pc = "all_preflight") ~> (pc \in {"all_ret", "main_cleanup"})
    /\ [](attempt <= max_retries /\ Attempts(log) <= max_retries)
    /\ [](InCategory =>
            /\ Len(report) <= Len(Files(category))
            /\ \A i \in 1..Len(report) : report[i].entry = i)
    /\ [](mode = "all" => dlCalls <= NumEntries(models))

\* C24 witness: download_all_models has gone over every category, calling
\* download_file on the way, and has returned False.
C24_Witness ==
    /\ pc = "all_ret"
    /\ catIdx > Len(models)
    /\ dlCalls > 0
    /\ ~allResult

\* C25: in ColabSetup, a model file found at its final path by the "already
\* exists" test of a run is a completely downloaded file, whatever failed or was
\* interrupted in the runs before.
C25_SkipNeverAcceptsPartial ==
    (pc = "setup_entry" /\ idx <= Len(SetupModels) /\ Exists(fs, SetupPath(idx))) =>
        /\ fs[SetupPath(idx)].whole
        /\ fs[SetupPath(idx)].size = SetupModels[idx].size

====
